---- MODULE Spec2Model ----
(***************************************************************************)
(* Model of aster_processing.ipynb: the radiometric conversions            *)
(* tir_dn2rad and tir_rad2tb and one call of zonal_stats, step by step.    *)
(*                                                                         *)
(* Numbers.  Radiance is held exactly, in units of 1e-6 W/(m^2 sr um).     *)
(* Temperatures are held in units of 0.1 K.  The logarithm of tir_rad2tb   *)
(* is evaluated in fixed point (10 fractional bits).  The statistics are   *)
(* computed in binary floating point with round-to-nearest-even, as numpy  *)
(* does on float64, with the significand shortened to MantBits bits.       *)
(***************************************************************************)
EXTENDS Integers, Sequences, FiniteSets, TLC

VARIABLES
    pc,                     \* position of the call inside zonal_stats
    src,                    \* the raster handle: "none", "open", "closed"
    aster_band,             \* argument
    return_masked_array,    \* argument
    nodata,                 \* src.nodata: << >> for None, else <<value>>
    touched,                \* pixels of the window a zone polygon touches
    clipped,                \* the integer grid mask() returned
    masked_aster_band_DN,   \* the grid as float64, DN = 0 set to nan
    masked_aster_band_rad,
    masked_aster_band_tb,
    kept,                   \* indices of the flattened grid kept in values
    values,
    stats,
    exc,                    \* the last exception raised, "" if none
    outcome,                \* "pending", "None", "tuple", "raised"
    result                  \* the returned tuple, << >> otherwise

vars == <<pc, src, aster_band, return_masked_array, nodata, touched, clipped,
          masked_aster_band_DN, masked_aster_band_rad, masked_aster_band_tb,
          kept, values, stats, exc, outcome, result>>

\* ------------------------------------------------------------------ bounds

\* Largest number of pixels in the cropped window returned by mask().
MaxPix == 3

\* Significand bits of the floating-point format of the statistics.
MantBits == 12

\* Band arguments tried: the five TIR bands and integers on both sides.
Bands == {4, 9, 10, 11, 12, 13, 14, 15}

\* Digital numbers a raster pixel may hold.
DNs == {-1, 0, 1, 200, 1500}

\* The nodata value the raster's metadata declares: none, 0, or non-zero.
Nodatas == {<< >>, <<0>>, <<255>>}

\* ------------------------------------------------------------------ floats

\* np.nan.  Every operator below tests for it before doing arithmetic.
NaN == -2000000000

IsNaN(x) == x = NaN

RECURSIVE Pow2(_)
Pow2(n) == IF n <= 0 THEN 1 ELSE 2 * Pow2(n - 1)

RECURSIVE BitLen(_)
BitLen(n) == IF n <= 0 THEN 0 ELSE 1 + BitLen(n \div 2)

Abs(x) == IF x < 0 THEN -x ELSE x

\* num/den (den > 0) rounded to the nearest integer, ties to even.
RoundHalfEven(num, den) ==
    LET q == num \div den
        r == num % den
    IN  IF 2 * r < den THEN q
        ELSE IF 2 * r > den THEN q + 1
        ELSE IF q % 2 = 0 THEN q ELSE q + 1

\* Spacing of the floating-point numbers around magnitude m.
Ulp(m) == Pow2(BitLen(m) - MantBits)

\* The floating-point number nearest to the integer x.
Fl(x) == Ulp(Abs(x)) * RoundHalfEven(x, Ulp(Abs(x)))

\* The floating-point number nearest to a / n (n > 0).
FlDiv(a, n) ==
    LET g == Ulp(Abs(a) \div n)
    IN  g * RoundHalfEven(a, n * g)

RECURSIVE SqrtSearch(_, _, _)
SqrtSearch(x, lo, hi) ==
    IF lo >= hi THEN lo
    ELSE LET mid == (lo + hi + 1) \div 2
         IN  IF mid * mid <= x THEN SqrtSearch(x, mid, hi)
             ELSE SqrtSearch(x, lo, mid - 1)

\* np.sqrt of x >= 0, correctly rounded.
FlSqrt(x) ==
    LET r == SqrtSearch(x, 0, IF x < 46340 THEN x ELSE 46340)
    IN  Fl(IF x - r * r > r THEN r + 1 ELSE r)

\* log2(n) for n > 0 with 10 fractional bits: the exponent, then the
\* fraction bit by bit by squaring the significand (12 fractional bits).
RECURSIVE Log2Frac(_, _, _)
Log2Frac(m, f, k) ==
    IF k = 0 THEN f
    ELSE LET s == (m * m) \div 4096
         IN  IF s >= 8192 THEN Log2Frac(s \div 2, 2 * f + 1, k - 1)
             ELSE Log2Frac(s, 2 * f, k - 1)

Log2Q(n) ==
    LET e == BitLen(n) - 1
        m == IF e >= 12 THEN n \div Pow2(e - 12) ELSE n * Pow2(12 - e)
    IN  e * 1024 + Log2Frac(m, 0, 10)

\* ------------------------------------------------------------------ conversions

\* Calibration tables.  ucc in 1e-6, k1 in 1e-5, k2 in 1e-2 units.
ucc == <<6822, 6780, 6590, 5693, 5225>>
k1 == <<304747000, 248093000, 193080000, 86565000, 64960000>>
k2 == <<173618, 166621, 158472, 134982, 127449>>

\* Python list indexing lst[i] on a list of length n: the 1-based position
\* read, or 0 when Python raises IndexError.  Negative i counts from the end.
ListIndex(i, n) ==
    IF i >= 0 /\ i < n THEN i + 1
    ELSE IF i < 0 /\ i >= -n THEN i + n + 1
    ELSE 0

\* The position band-10 selects in the five-element tables.
BandIndex(band) == ListIndex(band - 10, 5)

\* (DN - 1.) * ucc[band-10] for one sample.
Dn2RadPix(d, i) == IF IsNaN(d) THEN NaN ELSE (d - 1) * ucc[i]

\* k2[band-10] / np.log(k1[band-10]/rad + 1) for one sample, numpy's way:
\*   rad = 0            k1/0 = inf, log(inf) = inf, k2/inf = 0.0
\*   -k1 < rad < 0      k1/rad + 1 < 0, log gives nan
\*   otherwise          k1/rad + 1 = (k1 + rad)/rad > 0
Rad2TbPix(r, i) ==
    IF IsNaN(r) THEN NaN
    ELSE IF r = 0 THEN 0
    ELSE LET a == k1[i] + r \div 10
         IN  IF r < 0 /\ a > 0 THEN NaN
             ELSE IF a = 0 THEN 0
             ELSE LET l2 == Log2Q(Abs(a)) - Log2Q(Abs(r)) + 3402
                      ln == (l2 * 6931) \div 10000
                  IN  Fl(RoundHalfEven(k2[i] * 1024, ln * 10))

tir_dn2rad(DN, band) ==
    [p \in DOMAIN DN |-> Dn2RadPix(DN[p], BandIndex(band))]

tir_rad2tb(radiance, band) ==
    [p \in DOMAIN radiance |-> Rad2TbPix(radiance[p], BandIndex(band))]

\* ------------------------------------------------------------------ statistics

RECURSIVE SumFrom(_, _, _)
SumFrom(v, i, acc) ==
    IF i > Len(v) THEN acc ELSE SumFrom(v, i + 1, Fl(acc + v[i]))

\* np.add.reduce over fewer than 8 elements: a plain left-to-right loop.
FlSum(v) == SumFrom(v, 1, 0)

MeanDivisorOffByOne(v) == IF Len(v) > 1 THEN Len(v) - 1 ELSE 1

\* The count values.mean() and values.std() divide by.
MeanDivisor(v) == Len(v)

\* values.mean(): nan for an empty array (numpy warns, it does not raise).
ValuesMean(v) == IF Len(v) = 0 THEN NaN ELSE FlDiv(FlSum(v), MeanDivisor(v))

ValuesMax(v) == CHOOSE x \in {v[i] : i \in DOMAIN v} :
                    \A y \in {v[i] : i \in DOMAIN v} : y <= x

ValuesMin(v) == CHOOSE x \in {v[i] : i \in DOMAIN v} :
                    \A y \in {v[i] : i \in DOMAIN v} : x <= y

\* values.std(): sqrt(mean(abs(x - x.mean())**2)), ddof = 0.
ValuesStd(v) ==
    LET m == ValuesMean(v)
        sq == [i \in DOMAIN v |-> Fl(Fl(v[i] - m) * Fl(v[i] - m))]
    IN  FlSqrt(FlDiv(FlSum(sq), MeanDivisor(v)))

\* ------------------------------------------------------------------ zonal_stats

\* What mask() may do: return a grid, raise ValueError because the shapes do
\* not overlap the raster, raise another ValueError (no valid geometry to
\* rasterize), or fail to read the window.
MaskOutcomes == {"ok", "NoOverlap", "ValueError", "RasterioIOError"}

\* Instances of Python's ValueError among the exceptions of the model.
ValueErrors == {"NoOverlap", "ValueError", "EmptyReduction"}

MaskExceptMissing(e) == FALSE

\* "except ValueError" around mask().
MaskExcept(e) == e \in ValueErrors

StatsExceptMissing(e) == FALSE

\* "except ValueError" around the four reductions.
StatsExcept(e) == e \in ValueErrors

WithExitLeak(h) == h

\* Leaving the "with rio.open(...) as src" block closes the handle.
WithExit(h) == "closed"

\* mask(..., filled=True) with nodata not given: the fill value is the
\* raster's declared nodata value, or 0 when it declares none.
FillValue(nd) == IF nd = << >> THEN 0 ELSE nd[1]

\* mask(crop=True, all_touched=True, filled=True): pixels of the cropped
\* window touched by a polygon keep their DN, the others get the fill value.
Mask(raw, zone, nd) ==
    [p \in DOMAIN raw |-> IF p \in zone THEN raw[p] ELSE FillValue(nd)]

\* astype('float64'), then [DN == 0] = np.nan.
Promote(g) == [p \in DOMAIN g |-> IF g[p] = 0 THEN NaN ELSE g[p]]

RECURSIVE KeepFrom(_, _)
KeepFrom(t, i) ==
    IF i > Len(t) THEN << >>
    ELSE IF IsNaN(t[i]) THEN KeepFrom(t, i + 1)
    ELSE <<i>> \o KeepFrom(t, i + 1)

NotNaNIndexAll(t) == [i \in 1..Len(t) |-> i]

\* The indices ~np.isnan(values) selects from the flattened grid.
NotNaNIndex(t) == KeepFrom(t, 1)

\* values.max() on an empty array raises ValueError (values.mean() before
\* it only warns).
ReductionRaises(v) == Len(v) = 0

ReturnValueNoGrid(rma, st, grid) == <<st.mean, st.max, st.min, st.std>>

\* The two return statements at the end.
ReturnValue(rma, st, grid) ==
    IF rma = TRUE
    THEN <<st.mean, st.max, st.min, st.std, grid>>
    ELSE <<st.mean, st.max, st.min, st.std>>

NoStats == [mean |-> NaN, max |-> NaN, min |-> NaN, std |-> NaN]

Init ==
    /\ pc = "call"
    /\ src = "none"
    /\ aster_band = 10
    /\ return_masked_array = FALSE
    /\ nodata = << >>
    /\ touched = {}
    /\ clipped = << >>
    /\ masked_aster_band_DN = << >>
    /\ masked_aster_band_rad = << >>
    /\ masked_aster_band_tb = << >>
    /\ kept = << >>
    /\ values = << >>
    /\ stats = NoStats
    /\ exc = ""
    /\ outcome = "pending"
    /\ result = << >>

\* An exception leaves the function: the with block is left on the way.
Propagate(e) ==
    /\ pc' = "done"
    /\ exc' = e
    /\ outcome' = "raised"
    /\ src' = IF src = "open" THEN WithExit(src) ELSE src
    /\ result' = << >>

\* A bare "return" inside the with block, after exception e was caught.
ReturnNone(e) ==
    /\ pc' = "done"
    /\ exc' = e
    /\ outcome' = "None"
    /\ src' = WithExit(src)
    /\ result' = << >>

\* zonal_stats(aster_filepath, aster_band, shapefile_filepath, rma)
Call ==
    /\ pc = "call"
    /\ \E b \in Bands, r \in BOOLEAN :
          /\ aster_band' = b
          /\ return_masked_array' = r
    /\ pc' = "open"
    /\ UNCHANGED <<src, nodata, touched, clipped, masked_aster_band_DN,
                   masked_aster_band_rad, masked_aster_band_tb, kept, values,
                   stats, exc, outcome, result>>

\* with rio.open(aster_filepath) as src
Open ==
    /\ pc = "open"
    /\ \E ok \in BOOLEAN :
          IF ok
          THEN /\ src' = "open"
               /\ pc' = "read_file"
               /\ UNCHANGED <<exc, outcome, result>>
          ELSE Propagate("RasterioIOError")
    /\ UNCHANGED <<aster_band, return_masked_array, nodata, touched, clipped,
                   masked_aster_band_DN, masked_aster_band_rad,
                   masked_aster_band_tb, kept, values, stats>>

\* zone_shape = gpd.read_file(shapefile_filepath)
ReadFile ==
    /\ pc = "read_file"
    /\ \E ok \in BOOLEAN :
          IF ok
          THEN /\ pc' = "to_crs"
               /\ UNCHANGED <<src, exc, outcome, result>>
          ELSE Propagate("DriverError")
    /\ UNCHANGED <<aster_band, return_masked_array, nodata, touched, clipped,
                   masked_aster_band_DN, masked_aster_band_rad,
                   masked_aster_band_tb, kept, values, stats>>

\* zone_shape = zone_shape.to_crs(src.crs)
ToCrs ==
    /\ pc = "to_crs"
    /\ \E ok \in BOOLEAN :
          IF ok
          THEN /\ pc' = "mask"
               /\ UNCHANGED <<src, exc, outcome, result>>
          ELSE Propagate("CRSError")
    /\ UNCHANGED <<aster_band, return_masked_array, nodata, touched, clipped,
                   masked_aster_band_DN, masked_aster_band_rad,
                   masked_aster_band_tb, kept, values, stats>>

\* try: masked_aster_band_DN, mask_transform = mask(...)
\* except ValueError: return
MaskStep ==
    /\ pc = "mask"
    /\ \E o \in MaskOutcomes :
          IF o = "ok"
          THEN \E n \in 1..MaxPix, nd \in Nodatas :
                 \E raw \in [1..n -> DNs], zone \in (SUBSET (1..n)) \ {{}} :
                    /\ nodata' = nd
                    /\ touched' = zone
                    /\ clipped' = Mask(raw, zone, nd)
                    /\ pc' = "promote"
                    /\ UNCHANGED <<src, exc, outcome, result>>
          ELSE /\ IF MaskExcept(o) THEN ReturnNone(o) ELSE Propagate(o)
               /\ UNCHANGED <<nodata, touched, clipped>>
    /\ UNCHANGED <<aster_band, return_masked_array, masked_aster_band_DN,
                   masked_aster_band_rad, masked_aster_band_tb, kept, values,
                   stats>>

\* masked_aster_band_DN.astype('float64'); [masked_aster_band_DN==0] = np.nan
PromoteStep ==
    /\ pc = "promote"
    /\ masked_aster_band_DN' = Promote(clipped)
    /\ pc' = "dn2rad"
    /\ UNCHANGED <<src, aster_band, return_masked_array, nodata, touched,
                   clipped, masked_aster_band_rad, masked_aster_band_tb, kept,
                   values, stats, exc, outcome, result>>

\* masked_aster_band_rad = tir_dn2rad(masked_aster_band_DN, aster_band)
Dn2Rad ==
    /\ pc = "dn2rad"
    /\ IF BandIndex(aster_band) = 0
       THEN /\ Propagate("IndexError")
            /\ UNCHANGED masked_aster_band_rad
       ELSE /\ masked_aster_band_rad' =
                    tir_dn2rad(masked_aster_band_DN, aster_band)
            /\ pc' = "rad2tb"
            /\ UNCHANGED <<src, exc, outcome, result>>
    /\ UNCHANGED <<aster_band, return_masked_array, nodata, touched, clipped,
                   masked_aster_band_DN, masked_aster_band_tb, kept, values,
                   stats>>

\* masked_aster_band_tb = tir_rad2tb(masked_aster_band_rad, aster_band)
Rad2Tb ==
    /\ pc = "rad2tb"
    /\ IF BandIndex(aster_band) = 0
       THEN /\ Propagate("IndexError")
            /\ UNCHANGED masked_aster_band_tb
       ELSE /\ masked_aster_band_tb' =
                    tir_rad2tb(masked_aster_band_rad, aster_band)
            /\ pc' = "flatten"
            /\ UNCHANGED <<src, exc, outcome, result>>
    /\ UNCHANGED <<aster_band, return_masked_array, nodata, touched, clipped,
                   masked_aster_band_DN, masked_aster_band_rad, kept, values,
                   stats>>

\* squeeze(); values = flatten(); values = values[~np.isnan(values)]
Flatten ==
    /\ pc = "flatten"
    /\ kept' = NotNaNIndex(masked_aster_band_tb)
    /\ values' = [i \in DOMAIN kept' |-> masked_aster_band_tb[kept'[i]]]
    /\ pc' = "stats"
    /\ UNCHANGED <<src, aster_band, return_masked_array, nodata, touched,
                   clipped, masked_aster_band_DN, masked_aster_band_rad,
                   masked_aster_band_tb, stats, exc, outcome, result>>

\* try: mean, max, min, std   except ValueError: return
Stats ==
    /\ pc = "stats"
    /\ IF ReductionRaises(values)
       THEN /\ IF StatsExcept("EmptyReduction")
               THEN ReturnNone("EmptyReduction")
               ELSE Propagate("EmptyReduction")
            /\ UNCHANGED stats
       ELSE /\ stats' = [mean |-> ValuesMean(values),
                         max |-> ValuesMax(values),
                         min |-> ValuesMin(values),
                         std |-> ValuesStd(values)]
            /\ pc' = "return"
            /\ UNCHANGED <<src, exc, outcome, result>>
    /\ UNCHANGED <<aster_band, return_masked_array, nodata, touched, clipped,
                   masked_aster_band_DN, masked_aster_band_rad,
                   masked_aster_band_tb, kept, values>>

\* if return_masked_array == True: return ..., grid  else: return ...
Return ==
    /\ pc = "return"
    /\ result' = ReturnValue(return_masked_array, stats, masked_aster_band_tb)
    /\ outcome' = "tuple"
    /\ src' = WithExit(src)
    /\ pc' = "done"
    /\ UNCHANGED <<aster_band, return_masked_array, nodata, touched, clipped,
                   masked_aster_band_DN, masked_aster_band_rad,
                   masked_aster_band_tb, kept, values, stats, exc>>

Next ==
    \/ Call
    \/ Open
    \/ ReadFile
    \/ ToCrs
    \/ MaskStep
    \/ PromoteStep
    \/ Dn2Rad
    \/ Rad2Tb
    \/ Flatten
    \/ Stats
    \/ Return

Spec == Init /\ [][Next]_vars

\* ------------------------------------------------------------------ properties

TirBands == 10..14

InPopulation(p) == \E i \in DOMAIN kept : kept[i] = p

\* C1: a pixel of the clipped grid whose digital number is 0 is never
\* converted to a temperature and is absent from the population the
\* statistics are computed over.
C1_ZeroDNExcluded ==
    \A p \in DOMAIN clipped :
        clipped[p] = 0 =>
            /\ ~InPopulation(p)
            /\ p \in DOMAIN masked_aster_band_tb
                   => IsNaN(masked_aster_band_tb[p])

C1_Witness ==
    /\ outcome = "tuple"
    /\ aster_band \in TirBands
    /\ \E p \in touched : clipped[p] = 0 /\ ~InPopulation(p)

\* C2: for a band in 10..14, a pixel whose radiance is <= 0 (such as DN = 1)
\* gets no valid temperature and is not in the population of the statistics.
C2_NonPositiveRadianceIsNoData ==
    (outcome = "tuple" /\ aster_band \in TirBands) =>
        \A p \in DOMAIN masked_aster_band_rad :
            (~IsNaN(masked_aster_band_rad[p]) /\ masked_aster_band_rad[p] <= 0)
                => (IsNaN(masked_aster_band_tb[p]) /\ ~InPopulation(p))

\* C3: with a band outside 10..14 the conversions fail; they never return
\* a value computed from some band's coefficients.
C3_InvalidBandRejected ==
    aster_band \notin TirBands =>
        /\ masked_aster_band_rad = << >>
        /\ masked_aster_band_tb = << >>

\* C4: when the zone does not overlap the raster, the call ends with None
\* and no error, whatever return_masked_array is.
C4_NoOverlapReturnsNone ==
    (pc = "done" /\ exc = "NoOverlap") =>
        (outcome = "None" /\ result = << >>)

C4_Witness ==
    /\ pc = "done"
    /\ exc = "NoOverlap"
    /\ outcome = "None"
    /\ return_masked_array = TRUE

\* C5: when masking succeeds and every pixel of the converted grid is nan,
\* the call ends with None: no tuple of statistics and no error.
C5_EmptyZoneReturnsNone ==
    ( /\ pc = "done"
      /\ masked_aster_band_tb # << >>
      /\ \A p \in DOMAIN masked_aster_band_tb :
             IsNaN(masked_aster_band_tb[p]) )
        => (outcome = "None" /\ result = << >>)

C5_Witness ==
    /\ pc = "done"
    /\ aster_band \in TirBands
    /\ masked_aster_band_tb # << >>
    /\ \A p \in DOMAIN masked_aster_band_tb : IsNaN(masked_aster_band_tb[p])
    /\ outcome = "None"
    /\ return_masked_array = TRUE

\* C6: None comes only from non-overlap or an empty population; a band
\* outside 10..14 and any other error raised while masking reach the caller
\* as an error, never as None and never as a tuple of statistics.
C6_OnlyBenignNone ==
    /\ outcome = "None" => exc \in {"NoOverlap", "EmptyReduction"}
    /\ (pc = "done" /\ clipped # << >> /\ aster_band \notin TirBands)
          => outcome = "raised"

\* C7: no call ends with the raster handle still open.
C7_HandleClosedOnExit == pc = "done" => src # "open"

C7_Witness ==
    /\ pc = "done"
    /\ src = "closed"
    /\ outcome = "raised"
    /\ exc = "IndexError"

MaxAbs(v) == IF Abs(ValuesMin(v)) > Abs(ValuesMax(v))
             THEN Abs(ValuesMin(v)) ELSE Abs(ValuesMax(v))

C9_ReturnShape ==
    (pc = "done" /\ values # << >>) =>
        /\ outcome = "tuple"
        /\ Len(result) = (IF return_masked_array THEN 5 ELSE 4)
        /\ result[1] = ValuesMean(values)
        /\ result[2] = ValuesMax(values)
        /\ result[3] = ValuesMin(values)
        /\ result[4] = ValuesStd(values)
        /\ return_masked_array => result[5] = masked_aster_band_tb

C9_Witness ==
    /\ pc = "done"
    /\ aster_band \in TirBands
    /\ return_masked_array = TRUE
    /\ Len(result) = 5
    /\ result[2] > result[3]

\* C10: whatever nodata value the raster declares, a pixel of the window no
\* polygon touches is filled with 0, becomes nan and is absent from the
\* population (stated here for the calls with a band in 10..14).
C10_UntouchedExcluded ==
    (outcome = "tuple" /\ aster_band \in TirBands) =>
        \A p \in DOMAIN clipped :
            p \notin touched =>
                /\ clipped[p] = 0
                /\ IsNaN(masked_aster_band_tb[p])
                /\ ~InPopulation(p)

====
